---- MODULE Spec2Model ----
(***************************************************************************)
(* Graph construction of tiatoolbox/tools/graph.py:                        *)
(*   delaunay_adjacency      (graph.py 200-256)                            *)
(*   affinity_to_edge_index  (graph.py 259-292)                            *)
(*   hybrid_clustered_graph  (graph.py 34-197)                             *)
(*                                                                         *)
(* Arrays are functions over 0..n-1, as numpy indexes them.  A coordinate  *)
(* is a pair <<x, y>> of integers; lengths (dthresh, radii) are integers   *)
(* in the same unit, and a distance is compared with a length through the  *)
(* squares, which is exact.                                                *)
(*                                                                         *)
(* The reals of hybrid_clustered_graph are held in the integers:           *)
(*  - a coordinate counts units of 1/CoordDen, so that np.round, which     *)
(*    rounds to a whole number, rounds to a multiple of CoordDen;          *)
(*  - a distance that enters the kernel is the floor of the Euclidean      *)
(*    norm;                                                                *)
(*  - lambda_d and lambda_f count units of ln 2, so that                   *)
(*    exp(-lambda * distance) is a power of 2, and a similarity or a       *)
(*    dissimilarity s is held as the integer s * 2^KernelBits;             *)
(*  - the float NaN is held as the integer 2 * 2^KernelBits, a value no    *)
(*    weight and no dissimilarity 1 - f * d <= 1 takes;                    *)
(*  - lambda_h is held in tenths (0.8 is 8);                               *)
(*  - a mean is a fraction, compared by cross-multiplication.              *)
(***************************************************************************)
EXTENDS Integers, Sequences, FiniteSets, TLC

VARIABLES
    d_shape,     \* np.shape(points) of the array handed to delaunay_adjacency
    d_points,    \* its rows, when it is 2-D: [0..n-1 -> <<x, y>>]
    d_dthresh,   \* dthresh
    d_isnum,     \* isinstance(dthresh, Number)
    d_pc,        \* "call" | "done"
    d_tess,      \* tessellation.simplices: a set of 3-element index sets
    d_tessrun,   \* TRUE once Delaunay(points) has been called
    d_adj,       \* the returned adjacency matrix, [0..n-1 -> [0..n-1 -> 0..1]]
    d_outcome,   \* "none" | "ok" | "TypeError" | "ValueError" | "QhullError"
    a_shape,     \* np.shape(affinity_matrix) handed to affinity_to_edge_index
    a_matrix,    \* its entries, when it is 2-D: [0..n-1 -> [0..m-1 -> value]]
    a_threshold, \* threshold
    a_pc,        \* "call" | "done"
    a_edges,     \* the returned edge index: the sequence of its columns <<i, j>>
    a_outcome,   \* "none" | "ok" | "ValueError"
    h_points,    \* the caller's points handed to hybrid_clustered_graph
    h_features,  \* the caller's features: [0..r-1 -> [0..f-1 -> value]]
    h_cfg,       \* label, lambda_d, lambda_f, lambda_h, connectivity_distance,
                 \* neighbour_search_radius, feature_range_thresh
    h_pc,        \* the position of the call
    h_where,     \* where_significant: the set of feature columns kept
    h_feat,      \* the local `features` after graph.py 114
    h_queried,   \* TRUE once the kd-tree query of graph.py 119 has run
    h_cond,      \* condensed_distance_matrix
    h_index,     \* index, the write cursor of the fill loop
    h_i,         \* i, the row the fill loop is at
    h_clusters,  \* clusters: [0..n-1 -> label]
    h_coords,    \* point_centroids
    h_x,         \* feature_centroids
    h_tess,      \* the simplices of the triangulation of the centroids
    h_adj,       \* adjacency_matrix
    h_edges,     \* edge_index
    h_result,    \* the returned dict
    h_outcome    \* "none" | "ok" | "IndexError" | "ValueError" | "QhullError"

dvars == <<d_shape, d_points, d_dthresh, d_isnum, d_pc, d_tess, d_tessrun,
           d_adj, d_outcome>>

avars == <<a_shape, a_matrix, a_threshold, a_pc, a_edges, a_outcome>>

hvars == <<h_points, h_features, h_cfg, h_pc, h_where, h_feat, h_queried,
           h_cond, h_index, h_i, h_clusters, h_coords, h_x, h_tess, h_adj,
           h_edges, h_result, h_outcome>>

vars == <<dvars, avars, hvars>>

----------------------------------------------------------------------------
(* Bounds of the model.                                                    *)

\* the coordinates of the points handed to delaunay_adjacency: a grid of two
\* rows, wide enough for 4 points on one line
Xs == 0..3
Ys == 0..1
\* at most MaxPoints rows in the array handed to delaunay_adjacency
MaxPoints == 4
\* the triangulation holds at most MaxSimplices simplices
MaxSimplices == 3
\* dthresh ranges over 0..MaxThresh
MaxThresh == 3
\* the affinity matrices handed to affinity_to_edge_index have at most
\* MaxNodes rows
MaxNodes == 2
\* a coordinate of hybrid_clustered_graph counts units of 1/CoordDen
CoordDen == 2
\* a similarity s of the kernel is held as s * 2^KernelBits
KernelBits == 10
\* the points handed to hybrid_clustered_graph come in at most MaxGroups
\* groups of at most MaxGroupSize points each, at most MaxRows points in all
MaxGroups == 4
MaxGroupSize == 5
MaxRows == 8
\* the triangulation of the centroids holds at most MaxCentroidSimplices
\* simplices
MaxCentroidSimplices == 2

----------------------------------------------------------------------------
(* Helpers on arrays.                                                      *)

\* len(a) of an array [0..n-1 -> ...]
Len0(a) == Cardinality(DOMAIN a)

\* the squared Euclidean distance of two coordinates
SqDist(p, q) == (p[1] - q[1]) * (p[1] - q[1]) + (p[2] - q[2]) * (p[2] - q[2])

\* lexicographic order on coordinates
LexLess(p, q) == p[1] < q[1] \/ (p[1] = q[1] /\ p[2] < q[2])

\* twice the signed area of the triangle p q r
Cross(p, q, r) == (q[1] - p[1]) * (r[2] - p[2]) - (q[2] - p[2]) * (r[1] - p[1])

\* all rows of pts lie on one line: Qhull has no 2-D triangulation of them
AllCollinear(pts) ==
    \A i, j, k \in DOMAIN pts : Cross(pts[i], pts[j], pts[k]) = 0

\* the subsets of S with 1..k elements
SubsetsUpTo(S, k) == {T \in SUBSET S : T # {} /\ Cardinality(T) <= k}

\* the in-circle determinant of d against the triangle a b c: of the sign
\* of Cross(a, b, c) exactly when d is strictly inside the circumcircle
InCircle(a, b, c, d) ==
    LET ax == a[1] - d[1]
        ay == a[2] - d[2]
        bx == b[1] - d[1]
        by == b[2] - d[2]
        cx == c[1] - d[1]
        cy == c[2] - d[2]
    IN  (ax * ax + ay * ay) * (bx * cy - by * cx)
          - (bx * bx + by * by) * (ax * cy - ay * cx)
          + (cx * cx + cy * cy) * (ax * by - ay * bx)

\* the simplices a Delaunay triangulation of pts can hold: three rows that
\* span a triangle whose circumcircle has no row of pts strictly inside
DelaunaySimplices(pts) ==
    {s \in SUBSET (DOMAIN pts) :
        /\ Cardinality(s) = 3
        /\ \E i, j, k \in s :
            /\ i < j
            /\ j < k
            /\ Cross(pts[i], pts[j], pts[k]) # 0
            /\ \A m \in DOMAIN pts :
                InCircle(pts[i], pts[j], pts[k], pts[m])
                  * Cross(pts[i], pts[j], pts[k]) <= 0}

----------------------------------------------------------------------------
(* delaunay_adjacency                                                      *)

\* the validation without the length check of graph.py 223-224
DelaunayValidate_NoLength(shape, isnum) ==
    IF ~isnum THEN "TypeError"
    ELSE IF Len(shape) = 0 THEN "TypeError"
    ELSE IF Len(shape) # 2 THEN "ValueError"
    ELSE "ok"

\* the validation of graph.py 221-226, in the order of the code;
\* len() of a 0-d array is a TypeError of numpy
DelaunayValidate(shape, isnum) ==
    IF ~isnum THEN "TypeError"
    ELSE IF Len(shape) = 0 THEN "TypeError"
    ELSE IF shape[1] < 4 THEN "ValueError"
    ELSE IF Len(shape) # 2 THEN "ValueError"
    ELSE "ok"

\* a range query that leaves the boundary out
WithinBall_Open(p, x, r) == SqDist(p, x) < r * r

\* a range query with the comparison turned round
WithinBall_Beyond(p, x, r) == SqDist(p, x) >= r * r

\* kdtree.query_ball_point(x, r): the points within distance r of x, boundary
\* included
WithinBall(p, x, r) == SqDist(p, x) <= r * r

\* the neighbour sets without graph.py 238: an index stays in its own set
TriangleNeighbours_WithSelf(simplices) ==
    [index \in UNION simplices |->
        UNION {s : s \in {t \in simplices : index \in t}}]

\* triangle_neighbours after the loop of graph.py 235-239: for each index of a
\* simplex, the union of the other indexes of its simplices
TriangleNeighbours(simplices) ==
    [index \in UNION simplices |->
        UNION {s \ {index} : s \in {t \in simplices : index \in t}}]

\* graph.py 244-251: the triangle neighbours of index within dthresh of it
NearbyNeighbours(pts, simplices, dthresh, index) ==
    {n \in TriangleNeighbours(simplices)[index] :
        WithinBall(pts[n], pts[index], dthresh)}

\* graph.py 252-253: adjacency[index, neighbours] = 1 and
\* adjacency[neighbours, index] = 1
MarkAdjacent(adj, index, neighbours) ==
    [a \in DOMAIN adj |-> [b \in DOMAIN adj |->
        IF (a = index /\ b \in neighbours) \/ (b = index /\ a \in neighbours)
        THEN 1 ELSE adj[a][b]]]

\* the loop of graph.py 243-253 over the keys of triangle_neighbours
RECURSIVE FillAdjacency(_, _, _, _, _)
FillAdjacency(pts, simplices, dthresh, keys, adj) ==
    IF keys = {} THEN adj
    ELSE LET index == CHOOSE k \in keys : \A m \in keys : k <= m
         IN  FillAdjacency(pts, simplices, dthresh, keys \ {index},
                 MarkAdjacent(adj, index,
                     NearbyNeighbours(pts, simplices, dthresh, index)))

\* the matrix delaunay_adjacency returns for a triangulation `simplices`
DelaunayAdjacency(pts, simplices, dthresh) ==
    FillAdjacency(pts, simplices, dthresh, UNION simplices,
        [a \in DOMAIN pts |-> [b \in DOMAIN pts |-> 0]])

----------------------------------------------------------------------------
(* affinity_to_edge_index                                                  *)
(* Affinities are integers; a threshold is held doubled, so that the       *)
(* default threshold 0.5 is 1 and the comparison stays in the integers.    *)

\* graph.py 261: threshold = 0.5, doubled
DefaultThreshold == 1

\* the validation without the comparison of the two dimensions
AffinityValidate_2DOnly(shape) ==
    IF Len(shape) # 2 THEN "ValueError" ELSE "ok"

\* graph.py 284-286: not 2-D, or the two dimensions differ
AffinityValidate(shape) ==
    IF Len(shape) # 2 \/ Cardinality({shape[k] : k \in 1..Len(shape)}) # 1
    THEN "ValueError"
    ELSE "ok"

\* a comparison that keeps the entries equal to the threshold
Above_OrEqual(value, threshold) == 2 * value >= threshold

\* graph.py 289, 291: affinity_matrix > threshold
Above(value, threshold) == 2 * value > threshold

\* (affinity_matrix > threshold).nonzero(): the index pairs of the entries
\* above the threshold, scanned row by row from flat index k on
RECURSIVE Nonzero(_, _, _, _)
Nonzero(matrix, n, threshold, k) ==
    IF k >= n * n THEN <<>>
    ELSE LET i == k \div n
             j == k % n
         IN  (IF Above(matrix[i][j], threshold) THEN <<(<<i, j>>)>> ELSE <<>>)
                 \o Nonzero(matrix, n, threshold, k + 1)

\* an edge index that counts the nodes from 1
AffinityToEdgeIndex_OneBased(matrix, threshold) ==
    LET columns == Nonzero(matrix, Len0(matrix), threshold, 0)
    IN  [k \in DOMAIN columns |-> <<columns[k][1] + 1, columns[k][2] + 1>>]

\* graph.py 288-292: the 2 x M edge index, as the sequence of its columns
\* (row 0 of the index is the first entry of each column, row 1 the second);
\* the torch branch and the numpy branch give the same columns
AffinityToEdgeIndex(matrix, threshold) ==
    Nonzero(matrix, Len0(matrix), threshold, 0)

----------------------------------------------------------------------------
(* hybrid_clustered_graph: feature filter, kernel, condensed distances     *)

RECURSIVE Pow2(_)
Pow2(k) == IF k <= 0 THEN 1 ELSE 2 * Pow2(k - 1)

\* the integer that holds the similarity 1
Scale == Pow2(KernelBits)

\* the integer that holds the float NaN: no weight of the model and no
\* dissimilarity 1 - f * d, which is at most 1, takes this value
NaN == 2 * Scale

\* the floor of the square root
ISqrt(n) == CHOOSE r \in 0..n : r * r <= n /\ (r + 1) * (r + 1) > n

Max(S) == CHOOSE m \in S : \A v \in S : v <= m
Min(S) == CHOOSE m \in S : \A v \in S : m <= v

RECURSIVE SumOver(_, _)
\* the sum of f over the set S of its arguments
SumOver(f, S) ==
    IF S = {} THEN 0
    ELSE LET a == CHOOSE b \in S : TRUE IN f[a] + SumOver(f, S \ {a})

\* the columns of a feature array (0 columns when it has no rows)
Columns2D(features) ==
    IF DOMAIN features = {} THEN {} ELSE DOMAIN features[0]

\* graph.py 112: np.max(features, axis=0) - np.min(features, axis=0)
FeatureRanges(features) ==
    [c \in Columns2D(features) |->
        Max({features[r][c] : r \in DOMAIN features})
            - Min({features[r][c] : r \in DOMAIN features})]

\* a filter that also keeps the columns whose range equals the threshold
WhereSignificant_OrEqual(features, thresh) ==
    {c \in Columns2D(features) : FeatureRanges(features)[c] >= thresh}

\* graph.py 113: where_significant, as the set of the columns it marks
WhereSignificant(features, thresh) ==
    {c \in Columns2D(features) : FeatureRanges(features)[c] > thresh}

\* the k-th column (from 0) of the set of columns `where`
NthColumn(where, k) ==
    CHOOSE c \in where : Cardinality({d \in where : d < c}) = k

\* row[where]: the entries of a row at the columns of `where`, in order
SelectColumns(row, where) ==
    [k \in 0..(Cardinality(where) - 1) |-> row[NthColumn(where, k)]]

\* graph.py 114: features[:, where_significant]
FilterFeatures(features, where) ==
    [r \in DOMAIN features |-> SelectColumns(features[r], where)]

\* graph.py 134-139: the indexes the kd-tree ranks within the radius of
\* point i (i itself among them, at distance 0)
NeighbourIndexes(points, i, radius) ==
    {j \in DOMAIN points :
        radius > 0 /\ SqDist(points[i], points[j]) < radius * radius}

\* the Euclidean distance the kd-tree reports, floored
Distance(p, q) == ISqrt(SqDist(p, q))

\* np.linalg.norm of the difference of two feature rows, floored
FeatureDistance(u, v) ==
    ISqrt(SumOver([c \in DOMAIN u |-> (u[c] - v[c]) * (u[c] - v[c])], DOMAIN u))

\* np.exp(-e * ln 2), scaled
ExpNeg(e) == IF e >= 0 THEN Scale \div Pow2(e) ELSE Scale * Pow2(-e)

\* f * d of two scaled similarities, scaled; one of them at least is at
\* most 1, and one above 1 is a whole power of two
SimilarityProduct(f, d) ==
    IF f >= Scale THEN (f \div Scale) * d
    ELSE IF d >= Scale THEN (d \div Scale) * f
    ELSE (f * d) \div Scale

\* graph.py 142-156: 1 - f * d for point i and its neighbour j, scaled; a
\* weight that is NaN makes its exponential, the product and the
\* difference NaN
KernelDissimilarity(points, feat, cfg, i, j) ==
    LET f == ExpNeg(cfg.lambda_f * FeatureDistance(feat[i], feat[j]))
        d == ExpNeg(cfg.lambda_d * Distance(points[i], points[j]))
    IN  IF cfg.lambda_f = NaN \/ cfg.lambda_d = NaN THEN NaN
        ELSE Scale - SimilarityProduct(f, d)

\* graph.py 159-161: i_vs_all_similarities, ones but at the neighbours
IVsAllSimilarities(points, feat, cfg, i) ==
    [j \in DOMAIN points |->
        IF j \in NeighbourIndexes(points, i, cfg.neighbour_search_radius)
        THEN KernelDissimilarity(points, feat, cfg, i, j)
        ELSE Scale]

\* graph.py 145: features[i] or features[neighbour_indexes_singlepoint]
\* reads a row the local features do not have
FillIndexError(points, feat, cfg, i) ==
    \E j \in {i} \cup NeighbourIndexes(points, i, cfg.neighbour_search_radius) :
        j \notin DOMAIN feat

\* graph.py 127: int(len(points) * (len(points) - 1) / 2)
CondensedLength(n) == (n * (n - 1)) \div 2

\* a write of the slice [i:] of the row of i, cut to the same length
WriteRow_FromI(cond, index, row, i) ==
    [k \in DOMAIN cond |->
        IF k >= index /\ k < index + (Len0(row) - (i + 1))
        THEN row[i + (k - index)]
        ELSE cond[k]]

\* graph.py 162-165: the slice [i + 1:] of the row of i is written at
\* condensed_distance_matrix[index : index + len]
WriteRow(cond, index, row, i) ==
    [k \in DOMAIN cond |->
        IF k >= index /\ k < index + (Len0(row) - (i + 1))
        THEN row[(i + 1) + (k - index)]
        ELSE cond[k]]

----------------------------------------------------------------------------
(* hybrid_clustered_graph: hierarchy.linkage(method="average") and         *)
(* hierarchy.fcluster(criterion="distance") of scipy (graph.py 169-170).   *)
(* The distance of two clusters is the mean of the distances of their      *)
(* points, held as the sum s[a][b] over the pairs and the sizes.           *)

\* the position of the pair i < j in a condensed distance matrix of n points
CondensedIndex(n, i, j) == n * i - (i * (i + 1)) \div 2 + (j - i - 1)

\* the sums of distances between the n one-point clusters
InitialSums(cond, n) ==
    [a \in 0..(n - 1) |-> [b \in 0..(n - 1) |->
        IF a = b THEN 0
        ELSE cond[CondensedIndex(n, IF a < b THEN a ELSE b,
                                    IF a < b THEN b ELSE a)]]]

\* the clusters still there
Active(size) == {a \in DOMAIN size : size[a] > 0}

\* cluster a is nearer to x than cluster b is
Nearer(s, size, x, a, b) == s[x][a] * size[b] < s[x][b] * size[a]

\* the nearest neighbour of x the chain takes: the cluster before x in the
\* chain (prev, -1 when there is none) unless another is strictly nearer,
\* then the first of the nearest
NearestNeighbour(s, size, x, prev) ==
    LET others == Active(size) \ {x}
        first == Min({a \in others :
                        \A b \in others : ~Nearer(s, size, x, b, a)})
    IN  IF prev # -1 /\ ~Nearer(s, size, x, first, prev) THEN prev ELSE first

RECURSIVE GrowChain(_, _, _)
\* the chain is grown until its last two clusters are nearest to each other
GrowChain(s, size, chain) ==
    LET x == chain[Len(chain)]
        prev == IF Len(chain) > 1 THEN chain[Len(chain) - 1] ELSE -1
        y == NearestNeighbour(s, size, x, prev)
    IN  IF prev # -1 /\ y = prev THEN chain
        ELSE GrowChain(s, size, Append(chain, y))

\* the sums after cluster x is merged into cluster y
MergeSums(s, size, x, y) ==
    [a \in DOMAIN s |-> [b \in DOMAIN s |->
        IF a = y /\ b # y /\ b # x THEN s[b][x] + s[b][y]
        ELSE IF b = y /\ a # y /\ a # x THEN s[a][x] + s[a][y]
        ELSE s[a][b]]]

RECURSIVE NNChain(_, _, _, _)
\* the merges of the nearest-neighbour chain, in the order they are made:
\* each [x, y, num, den] merges x into y at the distance num / den
NNChain(s, size, chain, merges) ==
    IF Cardinality(Active(size)) <= 1 THEN merges
    ELSE LET start == IF chain = <<>> THEN <<Min(Active(size))>> ELSE chain
             c == GrowChain(s, size, start)
             a == c[Len(c)]
             b == c[Len(c) - 1]
             x == IF a < b THEN a ELSE b
             y == IF a < b THEN b ELSE a
         IN  NNChain(MergeSums(s, size, x, y),
                     [size EXCEPT ![x] = 0, ![y] = size[x] + size[y]],
                     SubSeq(c, 1, Len(c) - 2),
                     Append(merges, [x |-> x, y |-> y, num |-> s[x][y],
                                     den |-> size[x] * size[y]]))

\* merge m is at a distance no larger than merge k
NotFarther(m, k) == m.num * k.den <= k.num * m.den

RECURSIVE SortMerges(_)
\* np.argsort(Z[:, 2], kind="mergesort"): by distance, ties in their order
SortMerges(merges) ==
    IF merges = <<>> THEN <<>>
    ELSE LET n == Len(merges)
             last == merges[n]
             front == SortMerges(SubSeq(merges, 1, n - 1))
             keep == Cardinality({k \in 1..(n - 1) : NotFarther(front[k], last)})
         IN  SubSeq(front, 1, keep) \o <<last>> \o SubSeq(front, keep + 1, n - 1)

RECURSIVE LabelMerges(_, _, _, _)
\* label(Z, n): the k-th merge becomes the node n + k - 1, its children the
\* nodes that hold x and y, the smaller id to the left; of[p] is the node
\* point p is under
LabelMerges(sorted, k, of, nodes) ==
    IF k > Len(sorted) THEN nodes
    ELSE LET n == Len0(of)
             a == of[sorted[k].x]
             b == of[sorted[k].y]
         IN  LabelMerges(sorted, k + 1,
                 [p \in DOMAIN of |-> IF of[p] \in {a, b} THEN n + k - 1 ELSE of[p]],
                 Append(nodes, [left |-> IF a < b THEN a ELSE b,
                                right |-> IF a < b THEN b ELSE a,
                                num |-> sorted[k].num, den |-> sorted[k].den]))

\* hierarchy.linkage(condensed_distance_matrix, method="average"): the nodes
\* n .. 2n-2 of the dendrogram, node id at position id - n + 1
Linkage(cond, n) ==
    LabelMerges(
        SortMerges(NNChain(InitialSums(cond, n), [a \in 0..(n - 1) |-> 1],
                           <<>>, <<>>)),
        1, [p \in 0..(n - 1) |-> p], <<>>)

\* linkage, hierarchy.py: "The condensed distance matrix must contain only
\* finite values."
NotFinite(cond) == \E k \in DOMAIN cond : cond[k] = NaN

\* a check of the distance of the last merge only
NegativeDistances_RootOnly(nodes) ==
    nodes # <<>> /\ nodes[Len(nodes)].num < 0

\* fcluster, is_valid_linkage: "Linkage 'Z' contains negative distances."
NegativeDistances(nodes) == \E k \in DOMAIN nodes : nodes[k].num < 0

\* the merge distance of a node is no larger than lambda_h (in tenths)
WithinCut(node, lambda_h) ==
    10 * node.num <= lambda_h * Scale * node.den

RECURSIVE MaxDistWithin(_, _, _, _)
\* MC[id] <= cutoff: every merge at or under node id is within the cut
MaxDistWithin(nodes, n, id, lambda_h) ==
    IF id < n THEN TRUE
    ELSE LET node == nodes[id - n + 1]
         IN  /\ WithinCut(node, lambda_h)
             /\ MaxDistWithin(nodes, n, node.left, lambda_h)
             /\ MaxDistWithin(nodes, n, node.right, lambda_h)

RECURSIVE Monocrit(_, _, _, _, _, _, _)
\* cluster_monocrit of scipy: the walk from node id, left child first; a
\* node within the cut leads a cluster, a leaf under no leader is a cluster
\* of its own; leaves are numbered when their parent is left.  Gives the
\* count of clusters so far and the labels T.
Monocrit(nodes, n, id, lambda_h, led, count, T) ==
    LET node == nodes[id - n + 1]
        leads == ~led /\ MaxDistWithin(nodes, n, id, lambda_h)
        in == led \/ leads
        c0 == IF leads THEN count + 1 ELSE count
        r1 == IF node.left >= n
              THEN Monocrit(nodes, n, node.left, lambda_h, in, c0, T)
              ELSE [count |-> c0, T |-> T]
        r2 == IF node.right >= n
              THEN Monocrit(nodes, n, node.right, lambda_h, in, r1.count, r1.T)
              ELSE r1
        c3 == IF node.left < n /\ ~in THEN r2.count + 1 ELSE r2.count
        T3 == IF node.left < n THEN [r2.T EXCEPT ![node.left] = c3] ELSE r2.T
        c4 == IF node.right < n /\ ~in THEN c3 + 1 ELSE c3
        T4 == IF node.right < n THEN [T3 EXCEPT ![node.right] = c4] ELSE T3
    IN  [count |-> c4, T |-> T4]

\* hierarchy.fcluster(linkage_matrix, lambda_h, criterion="distance"): the
\* label, from 1, of each of the n >= 2 points
FCluster(nodes, n, lambda_h) ==
    Monocrit(nodes, n, 2 * n - 2, lambda_h, FALSE, 0,
             [p \in 0..(n - 1) |-> 0]).T

\* graph.py 169-170
Clusters(cond, n, lambda_h) == FCluster(Linkage(cond, n), n, lambda_h)

----------------------------------------------------------------------------
(* hybrid_clustered_graph: centroids (graph.py 172-182)                    *)

\* np.round(num / den) for den > 0: to the nearest whole number, a half to
\* the even one
RoundHalfEven(num, den) ==
    LET q == num \div den
        rem == num - q * den
    IN  IF 2 * rem < den THEN q
        ELSE IF 2 * rem > den THEN q + 1
        ELSE IF q % 2 = 0 THEN q ELSE q + 1

\* a rounding of the mean that takes a half up, not to the even neighbour
RoundedMean_HalfUp(sum, count) ==
    CoordDen * ((2 * sum + count * CoordDen) \div (2 * count * CoordDen))

\* np.round of the mean of `count` coordinates of sum `sum`, which count
\* units of 1/CoordDen: a whole number, in the same units
RoundedMean(sum, count) == CoordDen * RoundHalfEven(sum, count * CoordDen)

\* graph.py 173: unique_clusters, the labels in ascending order
UniqueClusters(clusters) == {clusters[p] : p \in DOMAIN clusters}

\* graph.py 177: np.where(clusters == c)
Members(clusters, c) == {p \in DOMAIN clusters : clusters[p] = c}

\* the c-th label (from 0) of unique_clusters
NthCluster(clusters, c) ==
    CHOOSE l \in UniqueClusters(clusters) :
        Cardinality({m \in UniqueClusters(clusters) : m < l}) = c

\* graph.py 179, 181: point_centroids
PointCentroids(points, clusters) ==
    [c \in 0..(Cardinality(UniqueClusters(clusters)) - 1) |->
        LET idx == Members(clusters, NthCluster(clusters, c))
        IN  << RoundedMean(SumOver([p \in idx |-> points[p][1]], idx),
                           Cardinality(idx)),
               RoundedMean(SumOver([p \in idx |-> points[p][2]], idx),
                           Cardinality(idx)) >>]

\* graph.py 180, 182: feature_centroids; an entry is the fraction
\* <<sum, count>> of the mean over the members
FeatureCentroids(feat, clusters) ==
    [c \in 0..(Cardinality(UniqueClusters(clusters)) - 1) |->
        LET idx == Members(clusters, NthCluster(clusters, c))
        IN  [k \in Columns2D(feat) |->
                << SumOver([p \in idx |-> feat[p][k]], idx), Cardinality(idx) >>]]

\* graph.py 180: features[idx, :] reads a row the local features do not have
CentroidIndexError(feat, clusters) ==
    \E p \in DOMAIN clusters : p \notin DOMAIN feat

----------------------------------------------------------------------------
(* The calls of delaunay_adjacency the model makes.                        *)

GridPoints == Xs \X Ys

\* arrays of n distinct grid points, in lexicographic order
PointArrays(n) ==
    {p \in [0..(n - 1) -> GridPoints] :
        \A i \in 0..(n - 2) : LexLess(p[i], p[i + 1])}

\* the shapes handed in: 0-d, 1-d, 2-d and 3-d arrays
Shapes ==
    {<<>>} \cup {<<n>> : n \in 0..MaxPoints}
           \cup {<<n, 2>> : n \in 0..MaxPoints}
           \cup {<<n, 2, 1>> : n \in {3, 4}}

\* the triangulations Delaunay(points) may give: at most MaxSimplices of
\* the simplices of pts
Triangulations(pts) == SubsetsUpTo(DelaunaySimplices(pts), MaxSimplices)

\* no call of affinity_to_edge_index
AIdle ==
    /\ a_shape = <<>>
    /\ a_matrix = <<>>
    /\ a_threshold = DefaultThreshold
    /\ a_pc = "idle"
    /\ a_edges = <<>>
    /\ a_outcome = "none"

\* no call of hybrid_clustered_graph
HIdle ==
    /\ h_points = <<>>
    /\ h_features = <<>>
    /\ h_cfg = <<>>
    /\ h_pc = "idle"
    /\ h_where = {}
    /\ h_feat = <<>>
    /\ h_queried = FALSE
    /\ h_cond = <<>>
    /\ h_index = 0
    /\ h_i = 0
    /\ h_clusters = <<>>
    /\ h_coords = <<>>
    /\ h_x = <<>>
    /\ h_tess = {}
    /\ h_adj = <<>>
    /\ h_edges = <<>>
    /\ h_result = <<>>
    /\ h_outcome = "none"

\* no call of delaunay_adjacency
DIdle ==
    /\ d_shape = <<>>
    /\ d_points = <<>>
    /\ d_dthresh = 0
    /\ d_isnum = TRUE
    /\ d_pc = "idle"
    /\ d_tess = {}
    /\ d_tessrun = FALSE
    /\ d_adj = <<>>
    /\ d_outcome = "none"

DInit ==
    /\ AIdle
    /\ HIdle
    /\ d_shape \in Shapes
    /\ d_points \in IF Len(d_shape) = 2 THEN PointArrays(d_shape[1])
                    ELSE {<<>>}
    /\ d_dthresh \in 0..MaxThresh
    /\ d_isnum \in BOOLEAN
    /\ d_pc = "call"
    /\ d_tess = {}
    /\ d_tessrun = FALSE
    /\ d_adj = <<>>
    /\ d_outcome = "none"

\* graph.py 221-226: a validation error ends the call
DelaunayRaise ==
    /\ d_pc = "call"
    /\ DelaunayValidate(d_shape, d_isnum) # "ok"
    /\ d_outcome' = DelaunayValidate(d_shape, d_isnum)
    /\ d_pc' = "done"
    /\ UNCHANGED <<d_shape, d_points, d_dthresh, d_isnum, d_tess, d_tessrun, d_adj>>
    /\ UNCHANGED <<avars, hvars>>

\* graph.py 229: Delaunay(points) fails on rows that span no plane
DelaunayQhullError ==
    /\ d_pc = "call"
    /\ DelaunayValidate(d_shape, d_isnum) = "ok"
    /\ AllCollinear(d_points)
    /\ d_tessrun' = TRUE
    /\ d_outcome' = "QhullError"
    /\ d_pc' = "done"
    /\ UNCHANGED <<d_shape, d_points, d_dthresh, d_isnum, d_tess, d_adj>>
    /\ UNCHANGED <<avars, hvars>>

\* graph.py 229-256: the triangulation, the neighbour sets, the matrix
DelaunayReturn ==
    /\ d_pc = "call"
    /\ DelaunayValidate(d_shape, d_isnum) = "ok"
    /\ ~AllCollinear(d_points)
    /\ \E simplices \in Triangulations(d_points) :
        /\ d_tess' = simplices
        /\ d_adj' = DelaunayAdjacency(d_points, simplices, d_dthresh)
    /\ d_tessrun' = TRUE
    /\ d_outcome' = "ok"
    /\ d_pc' = "done"
    /\ UNCHANGED <<d_shape, d_points, d_dthresh, d_isnum>>
    /\ UNCHANGED <<avars, hvars>>

DNext == DelaunayRaise \/ DelaunayQhullError \/ DelaunayReturn

SpecDelaunay == DInit /\ [][DNext]_vars

----------------------------------------------------------------------------
(* The calls of affinity_to_edge_index the model makes.                    *)

\* the affinities of the matrices handed in
AffinityValues == {0, 1, 2}

\* the thresholds handed in, doubled: 0, the default 0.5, 1 and 1.5
Thresholds == {0, DefaultThreshold, 2, 3}

\* the shapes handed in: 1-d, square and not square 2-d, 3-d
AffinityShapes ==
    {<<n>> : n \in 1..MaxNodes}
        \cup {<<n, m>> : n \in 0..MaxNodes, m \in 0..MaxNodes}
        \cup {<<n, n, n>> : n \in 1..MaxNodes}

AInit ==
    /\ DIdle
    /\ HIdle
    /\ a_shape \in AffinityShapes
    /\ a_matrix \in IF AffinityValidate(a_shape) = "ok"
                    THEN [0..(a_shape[1] - 1) ->
                             [0..(a_shape[2] - 1) -> AffinityValues]]
                    ELSE {<<>>}
    /\ a_threshold \in Thresholds
    /\ a_pc = "call"
    /\ a_edges = <<>>
    /\ a_outcome = "none"

\* graph.py 284-286: the shape is not NxN
AffinityRaise ==
    /\ a_pc = "call"
    /\ AffinityValidate(a_shape) # "ok"
    /\ a_outcome' = AffinityValidate(a_shape)
    /\ a_pc' = "done"
    /\ UNCHANGED <<a_shape, a_matrix, a_threshold, a_edges>>
    /\ UNCHANGED <<dvars, hvars>>

\* graph.py 288-292: the edge index is returned
AffinityReturn ==
    /\ a_pc = "call"
    /\ AffinityValidate(a_shape) = "ok"
    /\ a_edges' = AffinityToEdgeIndex(a_matrix, a_threshold)
    /\ a_outcome' = "ok"
    /\ a_pc' = "done"
    /\ UNCHANGED <<a_shape, a_matrix, a_threshold>>
    /\ UNCHANGED <<dvars, hvars>>

ANext == AffinityRaise \/ AffinityReturn

SpecAffinity == AInit /\ [][ANext]_vars

----------------------------------------------------------------------------
(* The calls of hybrid_clustered_graph the model makes.                    *)
(* The points come in groups: group k sits at an anchor, its points at     *)
(* small offsets from it.                                                  *)

\* the anchor of group k, the anchors `sep` apart on a grid two wide
Anchor(k, sep) == << (k % 2) * sep, (k \div 2) * sep >>

\* the offset of the m-th point of a group
Offset(m) == << m % 2, m \div 2 >>

\* g groups of s points each
GroupedPoints(g, s, sep) ==
    [p \in 0..(g * s - 1) |->
        << Anchor(p \div s, sep)[1] + Offset(p % s)[1],
           Anchor(p \div s, sep)[2] + Offset(p % s)[2] >>]

\* the numbers of groups and of points per group
Layouts ==
    {l \in (1..MaxGroups) \X (1..MaxGroupSize) :
        l[1] * l[2] >= 2 /\ l[1] * l[2] <= MaxRows}

\* the distances between the anchors of two groups, in units of 1/CoordDen
Separations == {2, 9}

\* a feature column is the same for all rows, one value per group, or one
\* value per point of a group
FeatureValue(kind, k, m) ==
    IF kind = "same" THEN 5
    ELSE IF kind = "group" THEN 4 * k
    ELSE m

\* the kinds of the two feature columns
FeaturePatterns ==
    { <<"same", "group">>, <<"point", "same">>, <<"group", "point">> }

\* `rows` feature rows for groups of s points
GroupedFeatures(rows, s, pattern) ==
    [r \in 0..(rows - 1) |->
        [c \in 0..(Len(pattern) - 1) |->
            FeatureValue(pattern[c + 1], r \div s, r % s)]]

\* the configurations with the weights 1: lambda_h = 0.8 (graph.py 40) in
\* tenths, the radii and thresholds in the units of the coordinates
PlainConfigurations ==
    [label : {<<>>, <<1>>},
     lambda_d : {1},
     lambda_f : {1},
     lambda_h : {8},
     connectivity_distance : {4, 12},
     neighbour_search_radius : {4, 16},
     feature_range_thresh : {-1, 0, 4}]

\* the weights lambda_d and lambda_f, in units of ln 2, that are not both
\* positive numbers: one of them negative, or lambda_f NaN
OddWeights == { <<-1, 1>>, <<1, -1>>, <<1, NaN>> }

\* the configurations with such weights
OddConfigurations ==
    {c \in [label : {<<>>},
            lambda_d : {w[1] : w \in OddWeights},
            lambda_f : {w[2] : w \in OddWeights},
            lambda_h : {8},
            connectivity_distance : {12},
            neighbour_search_radius : {4, 16},
            feature_range_thresh : {0}] :
        <<c.lambda_d, c.lambda_f>> \in OddWeights}

Configurations == PlainConfigurations \cup OddConfigurations

HInit ==
    /\ DIdle
    /\ AIdle
    /\ \E l \in Layouts, sep \in Separations, pattern \in FeaturePatterns,
          extra \in {-1, 0, 1} :
        /\ h_points = GroupedPoints(l[1], l[2], sep)
        /\ h_features = GroupedFeatures(l[1] * l[2] + extra, l[2], pattern)
    /\ h_cfg \in Configurations
    /\ h_pc = "filter"
    /\ h_where = {}
    /\ h_feat = <<>>
    /\ h_queried = FALSE
    /\ h_cond = <<>>
    /\ h_index = 0
    /\ h_i = 0
    /\ h_clusters = <<>>
    /\ h_coords = <<>>
    /\ h_x = <<>>
    /\ h_tess = {}
    /\ h_adj = <<>>
    /\ h_edges = <<>>
    /\ h_result = <<>>
    /\ h_outcome = "none"

\* graph.py 111-114: the columns of small range are dropped from the local
\* features; the caller's array is not written
FilterStep ==
    /\ h_pc = "filter"
    /\ h_where' = WhereSignificant(h_features, h_cfg.feature_range_thresh)
    /\ h_feat' = FilterFeatures(h_features,
                     WhereSignificant(h_features, h_cfg.feature_range_thresh))
    /\ h_pc' = "query"
    /\ UNCHANGED <<h_points, h_features, h_cfg, h_queried, h_cond, h_index,
                   h_i, h_clusters, h_coords, h_x, h_tess, h_adj, h_edges,
                   h_result, h_outcome>>
    /\ UNCHANGED <<dvars, avars>>

\* graph.py 116-130: the kd-tree query, the empty condensed matrix, index = 0
QueryStep ==
    /\ h_pc = "query"
    /\ h_queried' = TRUE
    /\ h_cond' = [k \in 0..(CondensedLength(Len0(h_points)) - 1) |-> 0]
    /\ h_index' = 0
    /\ h_i' = 0
    /\ h_pc' = "fill"
    /\ UNCHANGED <<h_points, h_features, h_cfg, h_where, h_feat, h_clusters,
                   h_coords, h_x, h_tess, h_adj, h_edges, h_result, h_outcome>>
    /\ UNCHANGED <<dvars, avars>>

\* graph.py 131-166: one round of the fill loop
FillRow ==
    /\ h_pc = "fill"
    /\ h_i < Len0(h_points) - 1
    /\ ~FillIndexError(h_points, h_feat, h_cfg, h_i)
    /\ h_cond' = WriteRow(h_cond, h_index,
                     IVsAllSimilarities(h_points, h_feat, h_cfg, h_i), h_i)
    /\ h_index' = h_index + (Len0(h_points) - (h_i + 1))
    /\ h_i' = h_i + 1
    /\ UNCHANGED <<h_points, h_features, h_cfg, h_pc, h_where, h_feat,
                   h_queried, h_clusters, h_coords, h_x, h_tess, h_adj,
                   h_edges, h_result, h_outcome>>
    /\ UNCHANGED <<dvars, avars>>

\* graph.py 145: the features have no row for point i or for a neighbour
FillRowIndexError ==
    /\ h_pc = "fill"
    /\ h_i < Len0(h_points) - 1
    /\ FillIndexError(h_points, h_feat, h_cfg, h_i)
    /\ h_outcome' = "IndexError"
    /\ h_pc' = "done"
    /\ UNCHANGED <<h_points, h_features, h_cfg, h_where, h_feat, h_queried,
                   h_cond, h_index, h_i, h_clusters, h_coords, h_x, h_tess,
                   h_adj, h_edges, h_result>>
    /\ UNCHANGED <<dvars, avars>>

\* graph.py 169: linkage raises ValueError, a distance is not finite
ClusterStepNotFinite ==
    /\ h_pc = "fill"
    /\ h_i >= Len0(h_points) - 1
    /\ NotFinite(h_cond)
    /\ h_outcome' = "ValueError"
    /\ h_pc' = "done"
    /\ UNCHANGED <<h_points, h_features, h_cfg, h_where, h_feat, h_queried,
                   h_cond, h_index, h_i, h_clusters, h_coords, h_x, h_tess,
                   h_adj, h_edges, h_result>>
    /\ UNCHANGED <<dvars, avars>>

\* graph.py 170: fcluster raises ValueError, the linkage matrix holds a
\* negative distance
ClusterStepNegative ==
    /\ h_pc = "fill"
    /\ h_i >= Len0(h_points) - 1
    /\ ~NotFinite(h_cond)
    /\ NegativeDistances(Linkage(h_cond, Len0(h_points)))
    /\ h_outcome' = "ValueError"
    /\ h_pc' = "done"
    /\ UNCHANGED <<h_points, h_features, h_cfg, h_where, h_feat, h_queried,
                   h_cond, h_index, h_i, h_clusters, h_coords, h_x, h_tess,
                   h_adj, h_edges, h_result>>
    /\ UNCHANGED <<dvars, avars>>

\* graph.py 168-170: linkage and fcluster, after the last round of the loop
ClusterStep ==
    /\ h_pc = "fill"
    /\ h_i >= Len0(h_points) - 1
    /\ ~NotFinite(h_cond)
    /\ ~NegativeDistances(Linkage(h_cond, Len0(h_points)))
    /\ h_clusters' = Clusters(h_cond, Len0(h_points), h_cfg.lambda_h)
    /\ h_pc' = "centroids"
    /\ UNCHANGED <<h_points, h_features, h_cfg, h_where, h_feat, h_queried,
                   h_cond, h_index, h_i, h_coords, h_x, h_tess, h_adj, h_edges,
                   h_result, h_outcome>>
    /\ UNCHANGED <<dvars, avars>>

\* graph.py 172-182: the centroid of each cluster
CentroidStep ==
    /\ h_pc = "centroids"
    /\ ~CentroidIndexError(h_feat, h_clusters)
    /\ h_coords' = PointCentroids(h_points, h_clusters)
    /\ h_x' = FeatureCentroids(h_feat, h_clusters)
    /\ h_pc' = "adjacency"
    /\ UNCHANGED <<h_points, h_features, h_cfg, h_where, h_feat, h_queried,
                   h_cond, h_index, h_i, h_clusters, h_tess, h_adj, h_edges,
                   h_result, h_outcome>>
    /\ UNCHANGED <<dvars, avars>>

\* graph.py 180: the features have no row for a member of a cluster
CentroidStepIndexError ==
    /\ h_pc = "centroids"
    /\ CentroidIndexError(h_feat, h_clusters)
    /\ h_outcome' = "IndexError"
    /\ h_pc' = "done"
    /\ UNCHANGED <<h_points, h_features, h_cfg, h_where, h_feat, h_queried,
                   h_cond, h_index, h_i, h_clusters, h_coords, h_x, h_tess,
                   h_adj, h_edges, h_result>>
    /\ UNCHANGED <<dvars, avars>>

\* graph.py 184-187 with 220-226: delaunay_adjacency raises on the centroids
AdjacencyStepRaise ==
    /\ h_pc = "adjacency"
    /\ DelaunayValidate(<<Len0(h_coords), 2>>, TRUE) # "ok"
    /\ h_outcome' = DelaunayValidate(<<Len0(h_coords), 2>>, TRUE)
    /\ h_pc' = "done"
    /\ UNCHANGED <<h_points, h_features, h_cfg, h_where, h_feat, h_queried,
                   h_cond, h_index, h_i, h_clusters, h_coords, h_x, h_tess,
                   h_adj, h_edges, h_result>>
    /\ UNCHANGED <<dvars, avars>>

\* graph.py 184-187 with 229: the centroids span no plane
AdjacencyStepQhullError ==
    /\ h_pc = "adjacency"
    /\ DelaunayValidate(<<Len0(h_coords), 2>>, TRUE) = "ok"
    /\ AllCollinear(h_coords)
    /\ h_outcome' = "QhullError"
    /\ h_pc' = "done"
    /\ UNCHANGED <<h_points, h_features, h_cfg, h_where, h_feat, h_queried,
                   h_cond, h_index, h_i, h_clusters, h_coords, h_x, h_tess,
                   h_adj, h_edges, h_result>>
    /\ UNCHANGED <<dvars, avars>>

\* the triangulations Delaunay(point_centroids) may give
CentroidTriangulations(pts) ==
    SubsetsUpTo(DelaunaySimplices(pts), MaxCentroidSimplices)

\* graph.py 190-196: the dict; y is <<>> when the key is not set
Result(x, edge_index, coords, label) ==
    [x |-> x, edge_index |-> edge_index, coords |-> coords, y |-> label]

\* graph.py 184-197 with 229-256: the adjacency matrix of the centroids, the
\* edge index, the dict, the return
ReturnStep ==
    /\ h_pc = "adjacency"
    /\ DelaunayValidate(<<Len0(h_coords), 2>>, TRUE) = "ok"
    /\ ~AllCollinear(h_coords)
    /\ \E simplices \in CentroidTriangulations(h_coords) :
        /\ h_tess' = simplices
        /\ h_adj' = DelaunayAdjacency(h_coords, simplices,
                                      h_cfg.connectivity_distance)
    /\ h_edges' = AffinityToEdgeIndex(h_adj', DefaultThreshold)
    /\ h_result' = Result(h_x, h_edges', h_coords, h_cfg.label)
    /\ h_outcome' = "ok"
    /\ h_pc' = "done"
    /\ UNCHANGED <<h_points, h_features, h_cfg, h_where, h_feat, h_queried,
                   h_cond, h_index, h_i, h_clusters, h_coords, h_x>>
    /\ UNCHANGED <<dvars, avars>>

HNext ==
    \/ FilterStep
    \/ QueryStep
    \/ FillRow
    \/ FillRowIndexError
    \/ ClusterStepNotFinite
    \/ ClusterStepNegative
    \/ ClusterStep
    \/ CentroidStep
    \/ CentroidStepIndexError
    \/ AdjacencyStepRaise
    \/ AdjacencyStepQhullError
    \/ ReturnStep

SpecHybrid == HInit /\ [][HNext]_vars

----------------------------------------------------------------------------
(* Properties of affinity_to_edge_index, under SpecAffinity.               *)

\* the columns of an edge index, as a set
Columns(edges) == {edges[k] : k \in 1..Len(edges)}

\* C3: the columns of the returned edge index are exactly the pairs (i, j)
\* with A[i][j] > threshold, each once, source first and target second; the
\* matrix [[0, 1], [1, 0]] with threshold 0.5 gives the columns (0, 1), (1, 0).
C3_ColumnsAreEntriesAboveThreshold ==
    a_outcome = "ok" =>
        /\ Columns(a_edges) =
              {<<i, j>> \in (DOMAIN a_matrix) \X (DOMAIN a_matrix) :
                  2 * a_matrix[i][j] > a_threshold}
        /\ \A k, l \in 1..Len(a_edges) : a_edges[k] = a_edges[l] => k = l
        /\ (/\ a_matrix = [i \in 0..1 |-> [j \in 0..1 |->
                                IF i = j THEN 0 ELSE 1]]
            /\ a_threshold = DefaultThreshold)
              => a_edges = << <<0, 1>>, <<1, 0>> >>

\* the call on [[0, 1], [1, 0]] with threshold 0.5 has returned two columns
C3_Witness ==
    /\ a_outcome = "ok"
    /\ a_matrix = [i \in 0..1 |-> [j \in 0..1 |-> IF i = j THEN 0 ELSE 1]]
    /\ a_threshold = DefaultThreshold
    /\ Len(a_edges) = 2

\* the shape is that of a square 2-D matrix
Square2D(shape) == Len(shape) = 2 /\ shape[1] = shape[2]

\* C12: a call of affinity_to_edge_index on an input that is not a square
\* 2-D matrix (1-D, 3-D, or N x M with N # M) ends with ValueError and
\* returns no edge index, and a call on a square 2-D matrix does not end
\* with ValueError.
C12_NotSquareRaisesValueError ==
    a_pc = "done" =>
        /\ ~Square2D(a_shape) => (a_outcome = "ValueError" /\ a_edges = <<>>)
        /\ Square2D(a_shape) => a_outcome = "ok"

\* the call on a 1 x 2 matrix has ended with ValueError
C12_Witness ==
    /\ a_pc = "done"
    /\ a_shape = <<1, 2>>
    /\ a_outcome = "ValueError"

----------------------------------------------------------------------------
(* Properties of delaunay_adjacency, under SpecDelaunay.                   *)

\* i and j are in one simplex of the triangulation
ShareSimplex(simplices, i, j) == \E s \in simplices : i \in s /\ j \in s

\* C1: the matrix delaunay_adjacency returns is symmetric and its diagonal
\* is zero, whatever the triangulation of the points.
C1_SymmetricZeroDiagonal ==
    d_outcome = "ok" =>
        \A i, j \in DOMAIN d_adj :
            /\ d_adj[i][j] = d_adj[j][i]
            /\ d_adj[i][i] = 0

\* a returned matrix with an edge in it
C1_Witness ==
    /\ d_outcome = "ok"
    /\ \E i, j \in DOMAIN d_adj : d_adj[i][j] = 1

\* C2: entry (i, j) of the returned matrix is 1 exactly when i and j are
\* distinct, share a simplex of the triangulation and are no further apart
\* than dthresh; every other entry is 0.
C2_EntryIffAdjacentAndNear ==
    d_outcome = "ok" =>
        \A i, j \in DOMAIN d_adj :
            /\ d_adj[i][j] \in {0, 1}
            /\ d_adj[i][j] = 1 <=>
                  /\ i # j
                  /\ ShareSimplex(d_tess, i, j)
                  /\ SqDist(d_points[i], d_points[j]) <= d_dthresh * d_dthresh

\* a returned matrix with an edge at exactly dthresh, and a pair of one
\* simplex that dthresh cuts
C2_Witness ==
    /\ d_outcome = "ok"
    /\ \E i, j \in DOMAIN d_adj :
        /\ d_adj[i][j] = 1
        /\ SqDist(d_points[i], d_points[j]) = d_dthresh * d_dthresh
    /\ \E i, j \in DOMAIN d_adj :
        /\ i # j
        /\ ShareSimplex(d_tess, i, j)
        /\ d_adj[i][j] = 0

\* C7: for the same points and triangulation, every entry that is 1 under
\* dthresh is 1 under every larger threshold.
C7_ThresholdMonotone ==
    d_outcome = "ok" =>
        \A d2 \in d_dthresh..(MaxThresh + 1) :
            LET wider == DelaunayAdjacency(d_points, d_tess, d2)
            IN  \A i, j \in DOMAIN d_adj : d_adj[i][j] = 1 => wider[i][j] = 1

\* a returned matrix with an edge, where a larger threshold adds another
C7_Witness ==
    /\ d_outcome = "ok"
    /\ \E i, j \in DOMAIN d_adj : d_adj[i][j] = 1
    /\ \E d2 \in d_dthresh..(MaxThresh + 1) :
        LET wider == DelaunayAdjacency(d_points, d_tess, d2)
        IN  \E i, j \in DOMAIN d_adj : d_adj[i][j] = 0 /\ wider[i][j] = 1

\* the array has fewer than 4 rows, or is not 2-dimensional
TooFewOrNot2D(shape) == Len(shape) # 2 \/ shape[1] < 4

\* C10: a call with fewer than 4 points, or with an array that is not
\* 2-dimensional, ends in an error (a ValueError when dthresh is a number and
\* the array has a length) before Delaunay is called, and returns no matrix.
C10_InvalidInputRaises ==
    /\ d_tessrun => d_pc = "done"
    /\ (d_pc = "done" /\ TooFewOrNot2D(d_shape)) =>
        /\ d_outcome \in {"ValueError", "TypeError"}
        /\ (d_isnum /\ Len(d_shape) > 0) => d_outcome = "ValueError"
        /\ ~d_tessrun
        /\ d_tess = {}
        /\ d_adj = <<>>

\* a finished call with 3 rows of 2 coordinates and a numeric dthresh
C10_Witness ==
    /\ d_pc = "done"
    /\ d_shape = <<3, 2>>
    /\ d_isnum
    /\ d_outcome = "ValueError"

----------------------------------------------------------------------------
(* Properties of hybrid_clustered_graph, under SpecHybrid.                 *)

\* the call was given as many feature rows as points
SameRowCount == Len0(h_features) = Len0(h_points)

\* the number of clusters fcluster found (0 before the clustering)
ClusterCount == Cardinality(UniqueClusters(h_clusters))

\* C4, as claimed: a call whose clustering puts all points into one
\* cluster returns a graph of 1 centroid and no edge, and no error.
C4_SingleClusterReturns ==
    (h_pc = "done" /\ SameRowCount /\ ClusterCount = 1) =>
        /\ h_outcome = "ok"
        /\ Len0(h_result.coords) = 1
        /\ Len0(h_result.x) = 1
        /\ h_result.edge_index = <<>>

\* C5, as claimed: a call whose features and points differ in their number
\* of rows ends in an error raised before the kd-tree query and the fill
\* loop, and returns no graph.
C5_RowMismatchRaisesFirst ==
    (h_pc = "done" /\ ~SameRowCount) =>
        /\ h_outcome \notin {"none", "ok"}
        /\ ~h_queried
        /\ h_result = <<>>

\* two groups of 4 points, every two points of one group within the
\* neighbour search radius, every two points of different groups further
\* apart than that radius and nearer than the connectivity distance
TwoGroupsOfFour ==
    /\ Len0(h_points) = 8
    /\ \A p, q \in 0..7 :
        LET sq == SqDist(h_points[p], h_points[q])
            r == h_cfg.neighbour_search_radius
            c == h_cfg.connectivity_distance
        IN  IF (p < 4) = (q < 4)
            THEN sq < r * r
            ELSE sq > r * r /\ sq < c * c

\* C6, as claimed: for two groups of 4 points, further apart than the
\* neighbour search radius and nearer than the connectivity distance, the
\* call returns 2 centroids and the edge index (0, 1), (1, 0).
C6_TwoGroupsGiveOneEdgePair ==
    (h_pc = "done" /\ SameRowCount /\ TwoGroupsOfFour) =>
        /\ h_outcome = "ok"
        /\ Len0(h_result.coords) = 2
        /\ h_result.edge_index = << <<0, 1>>, <<1, 0>> >>

\* the feature columns of the returned x: column k of x is the mean of
\* column NthColumn(h_where, k) of the features handed in
ColumnsOfX ==
    {NthColumn(h_where, k) : k \in DOMAIN h_result.x[0]}

\* column c of the features handed in has the same value in every row
ZeroRange(c) == \A r, q \in DOMAIN h_features : h_features[r][c] = h_features[q][c]

----------------------------------------------------------------------------
(* Properties of the fill loop of hybrid_clustered_graph, under SpecHybrid. *)

\* the position of the pair i < j in the condensed array of n points
PairPosition(n, i, j) == i * n - (i * (i + 1)) \div 2 + (j - i - 1)

\* the spatial distance of points i and j is below neighbour_search_radius
BelowRadius(i, j) ==
    /\ h_cfg.neighbour_search_radius > 0
    /\ SqDist(h_points[i], h_points[j])
          < h_cfg.neighbour_search_radius * h_cfg.neighbour_search_radius

\* what the condensed array is to hold for the pair i < j
PairEntry(i, j) ==
    IF BelowRadius(i, j)
    THEN KernelDissimilarity(h_points, h_feat, h_cfg, i, j)
    ELSE Scale

\* C14: when the fill loop over i = 0..N-2 has finished, the write cursor
\* is N(N-1)/2, the length of the condensed array, and for every pair i < j
\* the entry at i*N - i*(i+1)/2 + (j-i-1) is the kernel dissimilarity of
\* (i, j) when their distance is below neighbour_search_radius and 1
\* otherwise; while the loop runs, the rows already handled hold their
\* final entries and the positions from the cursor on are still the zeros
\* of the initial array, so that every position is written once.
C14_CondensedFill ==
    LET N == Len0(h_points)
    IN  h_queried =>
            /\ h_i <= N - 1
            /\ h_index = h_i * N - (h_i * (h_i + 1)) \div 2
            /\ DOMAIN h_cond = 0..((N * (N - 1)) \div 2 - 1)
            /\ h_i = N - 1 => h_index = (N * (N - 1)) \div 2
            /\ \A i \in 0..(h_i - 1) : \A j \in (i + 1)..(N - 1) :
                  h_cond[PairPosition(N, i, j)] = PairEntry(i, j)
            /\ \A k \in DOMAIN h_cond : k >= h_index => h_cond[k] = 0

\* the loop has finished on at least three points, with one pair below the
\* radius and one pair not below it
C14_Witness ==
    /\ h_pc = "centroids"
    /\ Len0(h_points) >= 3
    /\ \E i, j \in DOMAIN h_points :
        /\ i < j
        /\ BelowRadius(i, j)
        /\ h_cond[PairPosition(Len0(h_points), i, j)] < Scale
    /\ \E i, j \in DOMAIN h_points :
        /\ i < j
        /\ ~BelowRadius(i, j)
        /\ h_cond[PairPosition(Len0(h_points), i, j)] = Scale

----------------------------------------------------------------------------
(* Properties of the centroids of hybrid_clustered_graph, under SpecHybrid. *)

\* the node of the returned graph n is the cluster of the one point p
SingletonNode(n, p) == Members(h_clusters, NthCluster(h_clusters, n)) = {p}

\* node n of the returned graph has the filtered features of point p
FeaturesOfPoint(n, p) ==
    /\ DOMAIN h_result.x[n] = DOMAIN h_feat[p]
    /\ \A k \in DOMAIN h_feat[p] : h_result.x[n][k] = <<h_feat[p][k], 1>>

\* c is the whole number nearest to the coordinate v, the even one of the
\* two when v is half way (coordinates count units of 1/CoordDen)
NearestWhole(c, v) ==
    /\ c % CoordDen = 0
    /\ 2 * (c - v) <= CoordDen
    /\ 2 * (v - c) <= CoordDen
    /\ (2 * (c - v) = CoordDen \/ 2 * (v - c) = CoordDen)
          => (c \div CoordDen) % 2 = 0

\* C15, as claimed: for every cluster of exactly one point, the centroid in
\* coords is the point's original coordinate, whole number or not, and the
\* centroid feature is the point's filtered feature vector.
C15_SingletonCentroidIsPoint ==
    h_outcome = "ok" =>
        \A n \in DOMAIN h_result.coords : \A p \in DOMAIN h_points :
            SingletonNode(n, p) =>
                /\ h_result.coords[n] = h_points[p]
                /\ FeaturesOfPoint(n, p)

\* C15, amended: for every cluster of exactly one point, the centroid in
\* coords is the point's coordinate rounded to the nearest whole number, a
\* half to the even one, which is the original coordinate when that is a
\* whole number, and the centroid feature is the point's filtered feature
\* vector.
C15_SingletonCentroidIsRoundedPoint ==
    h_outcome = "ok" =>
        \A n \in DOMAIN h_result.coords : \A p \in DOMAIN h_points :
            SingletonNode(n, p) =>
                /\ NearestWhole(h_result.coords[n][1], h_points[p][1])
                /\ NearestWhole(h_result.coords[n][2], h_points[p][2])
                /\ \A a \in 1..2 :
                      h_points[p][a] % CoordDen = 0
                        => h_result.coords[n][a] = h_points[p][a]
                /\ FeaturesOfPoint(n, p)

\* a returned graph with a node of one point whose coordinate is not whole,
\* and a node of one point whose coordinates are whole
C15_Witness ==
    /\ h_outcome = "ok"
    /\ \E n \in DOMAIN h_result.coords : \E p \in DOMAIN h_points :
        /\ SingletonNode(n, p)
        /\ h_points[p][1] % CoordDen # 0
        /\ h_result.coords[n] # h_points[p]
    /\ \E n \in DOMAIN h_result.coords : \E p \in DOMAIN h_points :
        /\ SingletonNode(n, p)
        /\ h_points[p][1] % CoordDen = 0
        /\ h_points[p][2] % CoordDen = 0
        /\ h_result.coords[n] = h_points[p]

----------------------------------------------------------------------------
(* Properties of the returned graph, under SpecHybrid.                     *)

\* C13: in every graph hybrid_clustered_graph returns, x and coords have
\* the same number N_c of rows and every entry of edge_index, in the source
\* row and in the target row, is an integer i with 0 <= i < N_c.
C13_EdgeIndexWithinNodes ==
    h_outcome = "ok" =>
        /\ DOMAIN h_result.x = DOMAIN h_result.coords
        /\ DOMAIN h_result.coords = 0..(Len0(h_result.coords) - 1)
        /\ \A k \in DOMAIN h_result.edge_index :
            /\ h_result.edge_index[k][1] \in 0..(Len0(h_result.coords) - 1)
            /\ h_result.edge_index[k][2] \in 0..(Len0(h_result.coords) - 1)

\* a returned graph with an edge to its last node
C13_Witness ==
    /\ h_outcome = "ok"
    /\ \E k \in DOMAIN h_result.edge_index :
        h_result.edge_index[k][2] = Len0(h_result.coords) - 1

----------------------------------------------------------------------------
(* Properties of the clustering step of hybrid_clustered_graph, under       *)
(* SpecHybrid.                                                              *)

\* the condensed array holds a NaN or a negative value
BadDistances == \E k \in DOMAIN h_cond : h_cond[k] = NaN \/ h_cond[k] < 0

\* the fill loop is over and the clustering step has acted
ClusteringActed ==
    h_queried /\ h_i >= Len0(h_points) - 1 /\ h_pc # "fill"

====
